---- MODULE Spec2Model ----
(***************************************************************************)
(* gptme: the persisted settings store with its process-wide cached Config *)
(* (gptme/config.py) and the evaluation agent harness                       *)
(* (gptme/eval/agents.py).                                                  *)
(*                                                                         *)
(* Python values are records tagged by kind:                                *)
(*   [kind |-> "none"]                 None                                 *)
(*   [kind |-> "str", val |-> s]       a str (a tomlkit String item)        *)
(*   [kind |-> "table", body |-> b]    a tomlkit Container / Table; b is    *)
(*                                     the ordered body, a sequence of      *)
(*                                     [key |-> k, item |-> v] entries and  *)
(*                                     comment entries (key = "#")          *)
(*   [kind |-> "dict"]                 the detached {} that d.get(key, {})  *)
(*                                     returns for a missing key            *)
(*   [kind |-> "config", prompt, env]  a Config instance                    *)
(*   [kind |-> "files", map |-> m]     a Files value: path -> content       *)
(***************************************************************************)
EXTENDS Integers, Sequences, FiniteSets, TLC

VARIABLES
    environ,    \* os.environ restricted to EnvVars: name -> None or str
    file,       \* the file at config_path: None (missing) or the document
    _config,    \* the module global _config: None or a Config
    savePc,     \* position inside a running LLMAPIConfig.save_to_config
    saveArg,    \* the LLMAPIConfig that save_to_config runs on
    last,       \* the last call made: operation, arguments, outcome
    nOps,       \* number of calls made so far
    fs,         \* workspace directories: name -> None or the Files in it
    run,        \* the GPTMe.act invocations: position, arguments, outcome
    chatLog,    \* the calls the chat engine has received
    hashOf,     \* hash() of this process: prompt -> integer
    projFs,     \* the files of the project: path -> document or text
    promptCall  \* the last get_workspace_prompt call and its outcome

vars == <<environ, file, _config, savePc, saveArg, last, nOps,
          fs, run, chatLog, hashOf, projFs, promptCall>>

configVars == <<environ, file, _config, savePc, saveArg, last, nOps>>
agentVars == <<fs, run, chatLog, hashOf>>
promptVars == <<projFs, promptCall>>

---------------------------------------------------------------------------
(* Bounds *)

MaxOps == 2

---------------------------------------------------------------------------
(* Python values *)

PyNone == [kind |-> "none"]
PyStr(s) == [kind |-> "str", val |-> s]
PyDict == [kind |-> "dict"]
Table(b) == [kind |-> "table", body |-> b]
Entry(k, v) == [key |-> k, item |-> v]

CommentKey == "#"

\* tomlkit.comment(f"{_key} = {value} # {extra_comment}")
Comment(k, v, note) ==
    Entry(CommentKey, [kind |-> "comment", of |-> k, value |-> v, note |-> note])

\* bool(x): None, "", {} and a table without keys are falsy
Truthy(v) ==
    CASE v.kind = "none" -> FALSE
      [] v.kind = "str" -> v.val # ""
      [] v.kind = "dict" -> FALSE
      [] v.kind = "table" -> \E i \in 1..Len(v.body) : v.body[i].key # CommentKey
      [] v.kind = "files" -> DOMAIN v.map # {}
      [] OTHER -> TRUE

\* a or b
PyOr(a, b) == IF Truthy(a) THEN a ELSE b

NoExc == "None"

---------------------------------------------------------------------------
(* Key strings.  A key string is a sequence of tokens, each a name or the  *)
(* separator ".", so "env.FOO" is <<"env", ".", "FOO">>.                    *)

Dot == "."

RECURSIVE SplitFrom(_, _)
SplitFrom(cur, toks) ==
    IF toks = <<>> THEN <<cur>>
    ELSE IF Head(toks) = Dot THEN <<cur>> \o SplitFrom("", Tail(toks))
    ELSE SplitFrom(Head(toks), Tail(toks))

\* key.split("."): the names between the separators, "" for an empty one
Split(key) == SplitFrom("", key)

\* f"env.{name}"
EnvKey(name) == <<"env", Dot, name>>

---------------------------------------------------------------------------
(* The document model of the TOML library (tomlkit), as the code uses it.  *)

Keys(b) == {b[i].key : i \in 1..Len(b)} \ {CommentKey}

Has(b, k) == \E i \in 1..Len(b) : b[i].key = k /\ k # CommentKey

Item(b, k) == b[CHOOSE i \in 1..Len(b) : b[i].key = k].item

IsTable(v) == v.kind = "table"

\* key in d
Contains(d, k) == IsTable(d) /\ Has(d.body, k)

\* d.get(key, default) on a table or on a plain dict
DGet(d, k, default) == IF Contains(d, k) THEN Item(d.body, k) ELSE default

\* The loop "for key in keypath[:-1]: d = d.get(key, {})".  attached says
\* that d is still a node of the document (no default {} was taken);
\* a str has no .get, so stepping through one raises AttributeError.
RECURSIVE Walk(_, _)
Walk(d, keys) ==
    IF keys = <<>> THEN [exc |-> NoExc, d |-> d, attached |-> TRUE]
    ELSE IF d.kind = "str" THEN [exc |-> "AttributeError", d |-> d, attached |-> FALSE]
    ELSE IF Contains(d, Head(keys)) THEN Walk(Item(d.body, Head(keys)), Tail(keys))
    ELSE [Walk(PyDict, Tail(keys)) EXCEPT !.attached = FALSE]

Front(s) == SubSeq(s, 1, Len(s) - 1)
Last(s) == s[Len(s)]

InsertAt(b, i, e) == SubSeq(b, 1, i - 1) \o <<e>> \o SubSeq(b, i, Len(b))

RemoveAt(b, i) == SubSeq(b, 1, i - 1) \o SubSeq(b, i + 1, Len(b))

\* Mutant: d[k] = v leaves k as the only entry of the table
SetItemAlone(b, k, v) == <<Entry(k, v)>>

\* d[k] = v on a table: an existing key is replaced in place; a new value
\* goes before the first sub-table of the body, else at its end
SetItem(b, k, v) ==
    IF Has(b, k)
    THEN [i \in 1..Len(b) |-> IF b[i].key = k THEN Entry(k, v) ELSE b[i]]
    ELSE LET tables == {i \in 1..Len(b) : IsTable(b[i].item)}
         IN IF tables = {} THEN Append(b, Entry(k, v))
            ELSE InsertAt(b, CHOOSE i \in tables : \A j \in tables : i <= j, Entry(k, v))

\* del d[k]
DelItem(b, k) == RemoveAt(b, CHOOSE i \in 1..Len(b) : b[i].key = k)

\* d.add(comment(...)): a comment goes to the end of the body
AddComment(b, c) == Append(b, c)

\* The document with the table reached along prefix replaced by sub: the
\* effect on doc of mutating the table d that the walk aliased.
RECURSIVE ReplaceAt(_, _, _)
ReplaceAt(node, prefix, sub) ==
    IF prefix = <<>> THEN sub
    ELSE Table([i \in 1..Len(node.body) |->
                 IF node.body[i].key = Head(prefix)
                 THEN Entry(Head(prefix),
                            ReplaceAt(node.body[i].item, Tail(prefix), sub))
                 ELSE node.body[i]])

\* A comment written after a table's lines is read back as part of that
\* table (of its last sub-table, if it ends with one).
RECURSIVE AbsorbComment(_, _)
AbsorbComment(t, c) ==
    IF Len(t.body) > 0 /\ IsTable(Last(t.body).item)
    THEN Table([t.body EXCEPT ![Len(t.body)] =
                    Entry(@.key, AbsorbComment(@.item, c))])
    ELSE Table(Append(t.body, c))

RECURSIVE ReparseBody(_, _)
ReparseBody(done, rest) ==
    IF rest = <<>> THEN done
    ELSE LET e == Head(rest)
         IN IF e.key = CommentKey /\ Len(done) > 0 /\ IsTable(Last(done).item)
            THEN ReparseBody([done EXCEPT ![Len(done)] =
                                  Entry(@.key, AbsorbComment(@.item, e))],
                             Tail(rest))
            ELSE IF IsTable(e.item)
            THEN ReparseBody(Append(done,
                                 Entry(e.key, Table(ReparseBody(<<>>, e.item.body)))),
                             Tail(rest))
            ELSE ReparseBody(Append(done, e), Tail(rest))

\* tomlkit.load(f) of what tomlkit.dump(doc, f) wrote
DumpLoad(doc) == Table(ReparseBody(<<>>, doc.body))

---------------------------------------------------------------------------
(* gptme/config.py *)

Config(p, e) == [kind |-> "config", prompt |-> p, env |-> e]

Ret(v) == [exc |-> NoExc, ret |-> v]
Raise(e) == [exc |-> e, ret |-> PyNone]

\* os.environ.get(key)
OsEnvironGet(key) == IF key \in DOMAIN environ THEN environ[key] ELSE PyNone

\* Config.get_env:
\*   return os.environ.get(key) or self.env.get(key) or default
get_env(self, key, default) ==
    LET a == OsEnvironGet(key)
    IN IF Truthy(a) THEN Ret(a)
       ELSE IF self.env.kind = "str" THEN Raise("AttributeError")
       ELSE Ret(PyOr(DGet(self.env, key, PyNone), default))

\* Config.get_env_required:
\*   if val := os.environ.get(key) or self.env.get(key): return val
\*   raise KeyError(...)
get_env_required(self, key) ==
    LET a == OsEnvironGet(key)
    IN IF Truthy(a) THEN Ret(a)
       ELSE IF self.env.kind = "str" THEN Raise("AttributeError")
       ELSE LET val == DGet(self.env, key, PyNone)
            IN IF Truthy(val) THEN Ret(val) ELSE Raise("KeyError")

\* tomlkit.dumps(default_config.dict())
default_config ==
    Table(<<
        Entry("prompt", Table(<<
            Entry("about_user", PyStr("I am a curious human programmer.")),
            Entry("response_preference",
                  PyStr("Basic concepts don't need to be explained.")),
            Entry("project", Table(<<
                Entry("activitywatch", PyStr("ABOUT_ACTIVITYWATCH")),
                Entry("gptme", PyStr("ABOUT_GPTME")) >>)) >>)),
        Entry("env", Table(<<>>)) >>)

\* _load_config: the document read, and the file as it is afterwards
\* (a missing file is created with the default document)
_load_config(f) ==
    IF f = PyNone
    THEN [doc |-> DumpLoad(default_config), file |-> DumpLoad(default_config)]
    ELSE [doc |-> f, file |-> f]

\* Mutant: a top-level key besides prompt and env fails the load
load_config_strict(f) ==
    LET r == _load_config(f)
    IN IF Keys(r.doc.body) # {"prompt", "env"}
       THEN [exc |-> "AssertionError", config |-> PyNone, file |-> r.file]
       ELSE [exc |-> NoExc,
             config |-> Config(Item(r.doc.body, "prompt"), Item(r.doc.body, "env")),
             file |-> r.file]

\* load_config: asserts both top-level keys, pops them into a Config
load_config(f) ==
    LET r == _load_config(f)
    IN IF ~Contains(r.doc, "prompt") \/ ~Contains(r.doc, "env")
       THEN [exc |-> "AssertionError", config |-> PyNone, file |-> r.file]
       ELSE [exc |-> NoExc,
             config |-> Config(Item(r.doc.body, "prompt"), Item(r.doc.body, "env")),
             file |-> r.file]

\* The tail shared by set_config_value and comment_out: write doc to the
\* file, then "_config = load_config()".  config is PyNone when the reload
\* raised, and then _config keeps its old value.
WriteAndReload(doc) ==
    LET l == load_config(DumpLoad(doc))
    IN [exc |-> l.exc, file |-> l.file, config |-> l.config]

\* set_config_value(key, value)
set_config_value(f, key, value) ==
    LET r == _load_config(f)
        keypath == Split(key)
        w == Walk(r.doc, Front(keypath))
    IN IF w.exc # NoExc
       THEN [exc |-> w.exc, file |-> r.file, config |-> PyNone]
       ELSE IF w.d.kind = "str"
       THEN [exc |-> "TypeError", file |-> r.file, config |-> PyNone]
       ELSE IF IsTable(w.d)
       THEN WriteAndReload(ReplaceAt(r.doc, Front(keypath),
                Table(SetItem(w.d.body, Last(keypath), PyStr(value)))))
       ELSE WriteAndReload(r.doc)

\* comment_out(key, extra_comment)
comment_out(f, key, extra_comment) ==
    LET r == _load_config(f)
        keypath == Split(key)
        w == Walk(r.doc, Front(keypath))
        _key == Last(keypath)
    IN IF w.exc # NoExc
       THEN [exc |-> w.exc, file |-> r.file, config |-> PyNone]
       ELSE IF w.d.kind = "str"
       THEN [exc |-> "AttributeError", file |-> r.file, config |-> PyNone]
       ELSE LET value == DGet(w.d, _key, PyNone)
            IN IF Truthy(value)
               THEN WriteAndReload(ReplaceAt(r.doc, Front(keypath),
                        Table(AddComment(DelItem(w.d.body, _key),
                                         Comment(_key, value, extra_comment)))))
               ELSE WriteAndReload(r.doc)

\* class Provider
Provider == {"openai", "azure", "anthropic", "openrouter", "local"}

\* Mutant: every provider is given the endpoint variable
EndpointVarForAll(provider) == "API_ENDPOINT"

\* LLMAPIConfig._envvar_endpoint
_envvar_endpoint(provider) ==
    IF provider = "openai" \/ provider = "azure" THEN "API_ENDPOINT" ELSE ""

---------------------------------------------------------------------------
(* Inputs *)

EnvVars == {"FOO"}
EnvValues == {PyNone, PyStr(""), PyStr("live")}

TopNames == {"prompt", "env", "misc"}
LeafNames == {"FOO", "BAR"}

KeyStrings ==
    {<<a>> : a \in TopNames}
    \cup {<<"env", Dot, b>> : b \in LeafNames}
    \cup {<<"prompt", Dot, "FOO">>, <<"misc", Dot, "FOO">>,
          <<"env", Dot, "FOO", Dot, "BAR">>,
          <<"prompt", Dot, "project", Dot, "gptme">>}

Values == {"", "bar"}
Notes == {"deprecated"}
Defaults == {PyNone, PyStr("dflt")}

LLMAPIConfig(provider, model, endpoint) ==
    [endpoint |-> endpoint, token |-> "t", provider |-> provider, model |-> model]

\* Every provider with both fields empty and with both populated, and
\* the mixed cases
LLMAPIConfigs ==
    {LLMAPIConfig(p, PyNone, PyNone) : p \in Provider}
    \cup {LLMAPIConfig(p, PyStr("m"), PyStr("http://e")) : p \in Provider}
    \cup {LLMAPIConfig("openai", PyStr(""), PyStr("http://e")),
          LLMAPIConfig("azure", PyStr("m"), PyNone),
          LLMAPIConfig("anthropic", PyNone, PyStr("http://e")),
          LLMAPIConfig("local", PyStr("m"), PyNone)}

\* The default document with the body of its env table replaced
WithEnv(b) == ReplaceAt(default_config, <<"env">>, Table(b))

\* Settings files the program may start with: none, or a document that
\* has both top-level keys
InitFiles ==
    {PyNone, default_config,
     WithEnv(<<Entry("FOO", PyStr("stale"))>>),
     WithEnv(<<Entry("BAR", PyStr("")), Entry("FOO", PyStr("stale")),
               Entry("API_MODEL", PyStr("old"))>>)}

\* The record of a call: what was called on what, how it ended, and the
\* file and _config it started from
Call(op, arg, exc, ret, done) ==
    [op |-> op, arg |-> arg, exc |-> exc, ret |-> ret, done |-> done,
     before |-> file, cached |-> _config]

---------------------------------------------------------------------------
(* The settings store and the cached Config *)

InitConfig ==
    /\ environ \in [EnvVars -> EnvValues]
    /\ file \in InitFiles
    /\ _config = PyNone
    /\ savePc = "idle"
    /\ saveArg = PyNone
    /\ last = [op |-> "init", arg |-> PyNone, exc |-> NoExc, ret |-> PyNone,
               done |-> TRUE, before |-> PyNone, cached |-> PyNone]
    /\ nOps = 0

CanCall == savePc = "idle" /\ nOps < MaxOps

\* get_config()
GetConfig ==
    /\ CanCall
    /\ IF _config = PyNone
       THEN LET l == load_config(file)
            IN /\ file' = l.file
               /\ _config' = l.config
               /\ last' = Call("get_config", PyNone, l.exc, l.config, TRUE)
       ELSE /\ UNCHANGED <<file, _config>>
            /\ last' = Call("get_config", PyNone, NoExc, _config, TRUE)
    /\ nOps' = nOps + 1
    /\ UNCHANGED <<environ, savePc, saveArg, agentVars, promptVars>>

\* load_config()
LoadConfig ==
    /\ CanCall
    /\ LET l == load_config(file)
       IN /\ file' = l.file
          /\ last' = Call("load_config", PyNone, l.exc, l.config, TRUE)
    /\ nOps' = nOps + 1
    /\ UNCHANGED <<environ, _config, savePc, saveArg, agentVars, promptVars>>

\* Mutant: the file is written and the cached Config is left as it was
MutatedNoReload(r) ==
    /\ file' = r.file
    /\ _config' = _config

\* The effect of a set_config_value or comment_out call r on the state
Mutated(r) ==
    /\ file' = r.file
    /\ _config' = IF r.exc = NoExc THEN r.config ELSE _config

\* set_config_value(key, value)
SetConfigValue ==
    /\ CanCall
    /\ \E key \in KeyStrings, value \in Values :
         LET r == set_config_value(file, key, value)
         IN /\ Mutated(r)
            /\ last' = Call("set_config_value", [key |-> key, value |-> value],
                            r.exc, PyNone, TRUE)
    /\ nOps' = nOps + 1
    /\ UNCHANGED <<environ, savePc, saveArg, agentVars, promptVars>>

\* comment_out(key, extra_comment)
CommentOut ==
    /\ CanCall
    /\ \E key \in KeyStrings, note \in Notes :
         LET r == comment_out(file, key, note)
         IN /\ Mutated(r)
            /\ last' = Call("comment_out", [key |-> key, note |-> note],
                            r.exc, PyNone, TRUE)
    /\ nOps' = nOps + 1
    /\ UNCHANGED <<environ, savePc, saveArg, agentVars, promptVars>>

\* get_config().get_env(key, default), on the Config already cached
GetEnv ==
    /\ CanCall
    /\ _config # PyNone
    /\ \E key \in LeafNames, default \in Defaults :
         LET r == get_env(_config, key, default)
         IN last' = Call("get_env", [key |-> key, default |-> default],
                         r.exc, r.ret, TRUE)
    /\ nOps' = nOps + 1
    /\ UNCHANGED <<environ, file, _config, savePc, saveArg, agentVars, promptVars>>

\* get_config().get_env_required(key), on the Config already cached
GetEnvRequired ==
    /\ CanCall
    /\ _config # PyNone
    /\ \E key \in LeafNames :
         LET r == get_env_required(_config, key)
         IN last' = Call("get_env_required", [key |-> key], r.exc, r.ret, TRUE)
    /\ nOps' = nOps + 1
    /\ UNCHANGED <<environ, file, _config, savePc, saveArg, agentVars, promptVars>>

\* One statement of save_to_config has run its set_config_value r; the
\* call goes on at statement next, or ends (by an exception or a return)
SaveAdvance(r, next) ==
    /\ Mutated(r)
    /\ savePc' = IF r.exc = NoExc THEN next ELSE "idle"
    /\ saveArg' = IF r.exc = NoExc /\ next # "idle" THEN saveArg ELSE PyNone
    /\ last' = [last EXCEPT !.exc = r.exc,
                            !.done = (r.exc # NoExc \/ next = "idle")]

\* LLMAPIConfig.save_to_config, entered: its first statement
\*   set_config_value(f"env.{self._envvar_api_key}", self.token)
SaveToConfig ==
    /\ CanCall
    /\ \E self \in LLMAPIConfigs :
         LET r == set_config_value(file, EnvKey("API_KEY"), self.token)
         IN /\ Mutated(r)
            /\ savePc' = IF r.exc = NoExc THEN "provider" ELSE "idle"
            /\ saveArg' = IF r.exc = NoExc THEN self ELSE PyNone
            /\ last' = Call("save_to_config", self, r.exc, PyNone, r.exc # NoExc)
    /\ nOps' = nOps + 1
    /\ UNCHANGED <<environ, agentVars, promptVars>>

\*   set_config_value(f"env.{self._envvar_provider}", self.provider.value)
\*   if not self._envvar_endpoint: logger.warning(...); return
SaveProvider ==
    /\ savePc = "provider"
    /\ SaveAdvance(set_config_value(file, EnvKey("API_PROVIDER"), saveArg.provider),
                   IF _envvar_endpoint(saveArg.provider) = "" THEN "idle" ELSE "model")
    /\ UNCHANGED <<environ, nOps, agentVars, promptVars>>

\*   if self.model: set_config_value(f"env.{self._envvar_model}", self.model)
SaveModel ==
    /\ savePc = "model"
    /\ IF Truthy(saveArg.model)
       THEN SaveAdvance(set_config_value(file, EnvKey("API_MODEL"), saveArg.model.val),
                        "endpoint")
       ELSE /\ savePc' = "endpoint"
            /\ UNCHANGED <<file, _config, saveArg, last>>
    /\ UNCHANGED <<environ, nOps, agentVars, promptVars>>

\*   if self.endpoint:
\*       set_config_value(f"env.{self._envvar_endpoint}", str(self.endpoint))
SaveEndpoint ==
    /\ savePc = "endpoint"
    /\ IF Truthy(saveArg.endpoint)
       THEN SaveAdvance(set_config_value(file,
                            EnvKey(_envvar_endpoint(saveArg.provider)),
                            saveArg.endpoint.val),
                        "idle")
       ELSE /\ savePc' = "idle"
            /\ saveArg' = PyNone
            /\ last' = [last EXCEPT !.done = TRUE]
            /\ UNCHANGED <<file, _config>>
    /\ UNCHANGED <<environ, nOps, agentVars, promptVars>>

\* The process dies inside save_to_config; the next process starts with
\* the file as it is and no cached Config
Crash ==
    /\ savePc # "idle"
    /\ savePc' = "idle"
    /\ saveArg' = PyNone
    /\ _config' = PyNone
    /\ last' = [last EXCEPT !.exc = "Crash", !.done = TRUE]
    /\ UNCHANGED <<environ, file, nOps, agentVars, promptVars>>

---------------------------------------------------------------------------
(* gptme/eval/agents.py *)

Files(m) == [kind |-> "files", map |-> m]
NoFiles == <<>>

\* Model identifiers are sequences of characters
Models == {<<"a", "/", "b">>, <<"a", "-", "-", "b">>, <<"c">>}
Prompts == {"p", "q"}
InputFiles == {PyNone, Files(NoFiles), Files("in.txt" :> "i")}

\* hash() is fixed within a process and differs between processes
HashChoices ==
    {("p" :> 7) @@ ("q" :> 8),
     ("p" :> 7) @@ ("q" :> -7),
     ("p" :> 7) @@ ("q" :> 1000007)}

Abs(n) == IF n < 0 THEN -n ELSE n

IdModulus == 1000000

\* model.replace('/', '--')
RECURSIVE Replace(_)
Replace(model) ==
    IF model = <<>> THEN <<>>
    ELSE (IF Head(model) = "/" THEN <<"-", "-">> ELSE <<Head(model)>>)
         \o Replace(Tail(model))

\* Mutant: the name is made of the model alone
RunNameModelOnly(model, prompt) == [model |-> Replace(model), id |-> 0]

\* _id = abs(hash(prompt)) % 1000000
\* name = f"gptme-evals-{self.model.replace('/', '--')}-{_id}"
\* The string is kept as its two variable parts; the number ends it, so
\* two names are the same string exactly when both parts agree.
RunName(model, prompt) ==
    [model |-> Replace(model), id |-> Abs(hashOf[prompt]) % IdModulus]

\* Mutant: the existence check is left out
ExistsNever(name) == FALSE

\* workspace_dir.exists(), workspace_dir = get_name(name) / "workspace":
\* one directory per name, and fs holds the directories by name
Exists(name) == name \in DOMAIN fs

\* Mutant: only SystemExit is caught
CaughtSystemExit == {"SystemExit"}

\* Mutant: every exception of the chat engine is caught
CaughtAll == {"SystemExit", "KeyboardInterrupt", "RuntimeError"}

\* except (SystemExit, KeyboardInterrupt): pass
Caught == {"SystemExit", "KeyboardInterrupt"}

\* FileStore(working_dir=dir): bound to dir, which is created if missing
FileStore(dir) == IF dir \in DOMAIN fs THEN fs ELSE fs @@ (dir :> NoFiles)

\* FileStore.upload(files): every pair written under the directory
upload(dir, files) == [fs EXCEPT ![dir] = files.map @@ @]

\* FileStore.download(): every file found under the directory
download(dir) == Files(fs[dir])

\* What the chat engine may write into its workspace, and how it may end
ChatWrites == {<<"out.txt", "o">>}
ChatOutcomes == {NoExc, "SystemExit", "KeyboardInterrupt", "RuntimeError"}

Runs == {1, 2}

IdleRun ==
    [pc |-> "idle", model |-> <<>>, prompt |-> "", files |-> PyNone,
     name |-> [model |-> <<>>, id |-> 0], exc |-> NoExc, ret |-> PyNone,
     chatEnd |-> NoExc, uploaded |-> FALSE, downloaded |-> FALSE]

\* GPTMe(model).act(files, prompt), entered: the name is derived and
\*   if workspace_dir.exists(): raise FileExistsError(...)
Act(i) ==
    /\ run[i].pc = "idle"
    /\ \E model \in Models, prompt \in Prompts, files \in InputFiles :
         LET name == RunName(model, prompt)
             called == [run[i] EXCEPT !.model = model, !.prompt = prompt,
                                      !.files = files, !.name = name]
         IN run' = [run EXCEPT ![i] =
                IF Exists(name)
                THEN [called EXCEPT !.pc = "done", !.exc = "FileExistsError"]
                ELSE [called EXCEPT !.pc = "store"]]
    /\ UNCHANGED <<fs, chatLog, hashOf, configVars, promptVars>>

\*   store = FileStore(working_dir=workspace_dir)
ActStore(i) ==
    /\ run[i].pc = "store"
    /\ fs' = FileStore(run[i].name)
    /\ run' = [run EXCEPT ![i].pc = "upload"]
    /\ UNCHANGED <<chatLog, hashOf, configVars, promptVars>>

\*   store.upload(files), whatever files is
ActUploadAlways(i) ==
    /\ run[i].pc = "upload"
    /\ fs' = IF Truthy(run[i].files) THEN upload(run[i].name, run[i].files) ELSE fs
    /\ run' = [run EXCEPT ![i].pc = "chat", ![i].uploaded = TRUE]
    /\ UNCHANGED <<chatLog, hashOf, configVars, promptVars>>

\*   if files: store.upload(files)
ActUpload(i) ==
    /\ run[i].pc = "upload"
    /\ IF Truthy(run[i].files)
       THEN /\ fs' = upload(run[i].name, run[i].files)
            /\ run' = [run EXCEPT ![i].pc = "chat", ![i].uploaded = TRUE]
       ELSE /\ fs' = fs
            /\ run' = [run EXCEPT ![i].pc = "chat"]
    /\ UNCHANGED <<chatLog, hashOf, configVars, promptVars>>

\*   gptme_chat([Message("user", prompt)], [prompt_sys], name=name,
\*              model=self.model, no_confirm=True, interactive=False,
\*              workspace="@log")
ActChat(i) ==
    /\ run[i].pc = "chat"
    /\ chatLog' = Append(chatLog,
           [run |-> i, prompt |-> run[i].prompt, name |-> run[i].name,
            model |-> run[i].model, no_confirm |-> TRUE, interactive |-> FALSE,
            workspace |-> "@log"])
    /\ run' = [run EXCEPT ![i].pc = "chatting"]
    /\ UNCHANGED <<fs, hashOf, configVars, promptVars>>

\* The chat engine, running, writes a file into its workspace
ChatWrite(i) ==
    /\ run[i].pc = "chatting"
    /\ \E w \in ChatWrites :
         fs' = [fs EXCEPT ![run[i].name] = (w[1] :> w[2]) @@ @]
    /\ UNCHANGED <<run, chatLog, hashOf, configVars, promptVars>>

\* The chat engine returns or raises; SystemExit and KeyboardInterrupt
\* are swallowed, anything else leaves act
ChatEnd(i) ==
    /\ run[i].pc = "chatting"
    /\ \E outcome \in ChatOutcomes :
         run' = [run EXCEPT ![i] =
                IF outcome = NoExc \/ outcome \in Caught
                THEN [@ EXCEPT !.pc = "download", !.chatEnd = outcome]
                ELSE [@ EXCEPT !.pc = "done", !.chatEnd = outcome,
                               !.exc = outcome]]
    /\ UNCHANGED <<fs, chatLog, hashOf, configVars, promptVars>>

\*   return store.download()
ActDownload(i) ==
    /\ run[i].pc = "download"
    /\ run' = [run EXCEPT ![i].pc = "done", ![i].downloaded = TRUE,
                          ![i].ret = download(run[i].name)]
    /\ UNCHANGED <<fs, chatLog, hashOf, configVars, promptVars>>

---------------------------------------------------------------------------
(* gptme/config.py: the project configuration and the workspace prompt.   *)
(* A path is the sequence of its components; <<>> is the current          *)
(* directory.  projFs holds the files that exist: a candidate             *)
(* configuration path maps to the document it parses to, any other path  *)
(* to its text.                                                           *)

PyList(s) == [kind |-> "list", items |-> s]

Workspaces == {<<>>, <<"ws">>}

\* Names that end in ".md"
MdNames == {"a.md", "c.md"}

DataText ==
    (<<"a.md">> :> PyStr("A")) @@ (<<"c.md">> :> PyStr("C"))
        @@ (<<"docs", "b.md">> :> PyStr("B"))

\* What a gptme.toml may hold: nothing, literal paths, a pattern, or a key
\* that ProjectConfig does not have
ProjectDocs ==
    {Table(<<>>),
     Table(<<Entry("files", PyList(<<<<"a.md">>, <<"docs", "b.md">>>>))>>),
     Table(<<Entry("files", PyList(<<<<"*.md">>>>))>>),
     Table(<<Entry("name", PyStr("x"))>>)}

\* Path(workspace) / "gptme.toml", Path(workspace) / ".github" / "gptme.toml"
Candidates(workspace) ==
    <<workspace \o <<"gptme.toml">>, workspace \o <<".github", "gptme.toml">>>>

CandidatePaths ==
    UNION {{Candidates(w)[1], Candidates(w)[2]} : w \in Workspaces}

\* p.exists()
PathExists(p) == p \in DOMAIN projFs

\* Mutant: the candidates are tried in the other order
project_config_paths_reversed(workspace) ==
    SelectSeq(<<Candidates(workspace)[2], Candidates(workspace)[1]>>, PathExists)

\* project_config_paths = [p for p in (...) if p.exists()]
project_config_paths(workspace) == SelectSeq(Candidates(workspace), PathExists)

\* ProjectConfig(**project_config): files defaults to the empty list, any
\* other key is an unexpected keyword argument
ProjectConfig(project_config) ==
    IF Keys(project_config.body) \subseteq {"files"}
    THEN Ret([kind |-> "project",
              files |-> IF Has(project_config.body, "files")
                        THEN Item(project_config.body, "files").items
                        ELSE <<>>])
    ELSE Raise("TypeError")

\* The orders in which the current directory may list its entries
Listings ==
    LET entries == {p \in DOMAIN projFs : Len(p) = 1}
    IN {l \in [1..Cardinality(entries) -> entries] :
            \A i, j \in 1..Cardinality(entries) : l[i] = l[j] => i = j}

\* glob.glob(pattern), relative to the current directory: "*.md" gives
\* the matching entries in listing order, a literal path gives itself if
\* it exists
glob(pattern, listing) ==
    IF pattern = <<"*.md">>
    THEN SelectSeq(listing, LAMBDA p : p[1] \in MdNames)
    ELSE IF PathExists(pattern) THEN <<pattern>> ELSE <<>>

\* [p for file in project.files for p in glob.glob(file)]
RECURSIVE Expand(_, _)
Expand(patterns, listing) ==
    IF patterns = <<>> THEN <<>>
    ELSE glob(Head(patterns), listing) \o Expand(Tail(patterns), listing)

\* "\n\nSelected project files, read more with cat:\n" + "\n\n".join(
\*     f"```{Path(file).name}\n{Path(file).read_text()}\n```" ...)
WorkspacePrompt(files) ==
    [kind |-> "prompt",
     blocks |-> [k \in 1..Len(files) |->
                    [name |-> Last(files[k]), text |-> projFs[files[k]].val]]]

\* get_workspace_prompt(workspace); opened lists the files it opened
get_workspace_prompt(workspace, listing) ==
    LET paths == project_config_paths(workspace)
    IN IF paths # <<>>
       THEN LET project_config_path == paths[1]
                project == ProjectConfig(projFs[project_config_path])
            IN IF project.exc # NoExc
               THEN [exc |-> project.exc, ret |-> PyNone,
                     opened |-> <<project_config_path>>]
               ELSE LET files == Expand(project.ret.files, listing)
                    IN IF \E k \in 1..Len(files) : ~PathExists(files[k])
                       THEN [exc |-> "SystemExit", ret |-> PyNone,
                             opened |-> <<project_config_path>>]
                       ELSE [exc |-> NoExc, ret |-> WorkspacePrompt(files),
                             opened |-> <<project_config_path>> \o files]
       ELSE [exc |-> NoExc, ret |-> PyStr(""), opened |-> <<>>]

NoPromptCall ==
    [op |-> "init", workspace |-> <<>>, exc |-> NoExc, ret |-> PyNone,
     opened |-> <<>>]

\* get_workspace_prompt(workspace)
GetWorkspacePrompt ==
    /\ \E workspace \in Workspaces, listing \in Listings :
         LET r == get_workspace_prompt(workspace, listing)
         IN promptCall' = [op |-> "get_workspace_prompt", workspace |-> workspace,
                           exc |-> r.exc, ret |-> r.ret, opened |-> r.opened]
    /\ UNCHANGED <<projFs, configVars, agentVars>>

---------------------------------------------------------------------------
(* Specifications *)

\* No act invocation is made
AgentIdle ==
    /\ fs = <<>>
    /\ run = [i \in Runs |-> IdleRun]
    /\ chatLog = <<>>
    /\ hashOf = ("p" :> 7) @@ ("q" :> 8)

\* The settings store is not used
ConfigIdle ==
    /\ environ = [v \in EnvVars |-> PyNone]
    /\ file = PyNone
    /\ _config = PyNone
    /\ savePc = "idle"
    /\ saveArg = PyNone
    /\ last = [op |-> "init", arg |-> PyNone, exc |-> NoExc, ret |-> PyNone,
               done |-> TRUE, before |-> PyNone, cached |-> PyNone]
    /\ nOps = 0

\* The harness starts with no workspace, or with one left by an earlier run
InitAgent ==
    /\ hashOf \in HashChoices
    /\ fs \in {<<>>, RunName(<<"a", "/", "b">>, "p") :> ("old.txt" :> "x")}
    /\ run = [i \in Runs |-> IdleRun]
    /\ chatLog = <<>>

\* get_workspace_prompt is not called
PromptIdle ==
    /\ projFs = <<>>
    /\ promptCall = NoPromptCall

\* Any of the candidate configurations and of the project's files exist
InitPrompt ==
    /\ \E C \in SUBSET CandidatePaths, D \in SUBSET DOMAIN DataText :
           \E docs \in [C -> ProjectDocs] :
               projFs = docs @@ [p \in D |-> DataText[p]]
    /\ promptCall = NoPromptCall

Init == InitConfig /\ AgentIdle /\ PromptIdle

Next ==
    \/ GetConfig
    \/ LoadConfig
    \/ SetConfigValue
    \/ CommentOut
    \/ GetEnv
    \/ GetEnvRequired
    \/ SaveToConfig
    \/ SaveProvider
    \/ SaveModel
    \/ SaveEndpoint
    \/ Crash

\* The settings store: config.py
Spec == Init /\ [][Next]_vars

AgentNext ==
    \E i \in Runs :
        \/ Act(i)
        \/ ActStore(i)
        \/ ActUpload(i)
        \/ ActChat(i)
        \/ ChatWrite(i)
        \/ ChatEnd(i)
        \/ ActDownload(i)

AgentInit == ConfigIdle /\ InitAgent /\ PromptIdle

\* The agent harness: eval/agents.py
AgentSpec == AgentInit /\ [][AgentNext]_vars

PromptNext == GetWorkspacePrompt

PromptInit == ConfigIdle /\ AgentIdle /\ InitPrompt

\* The workspace prompt: get_workspace_prompt of config.py
PromptSpec == PromptInit /\ [][PromptNext]_vars

---------------------------------------------------------------------------
(* Reading the persisted document *)

\* The item at keypath of doc, or None when no active key is there
Lookup(doc, keypath) ==
    LET w == Walk(doc, Front(keypath))
    IN IF w.exc = NoExc /\ Contains(w.d, Last(keypath))
       THEN Item(w.d.body, Last(keypath))
       ELSE PyNone

\* The document a call that started from file f worked on
Loaded(f) == _load_config(f).doc

\* What get_config() returns in the current state
GetConfigResult == IF _config = PyNone THEN load_config(file).config ELSE _config

\* The stated precedence: process environment, then persisted env, then
\* the default (None when omitted)
Precedence(self, key, default) ==
    IF OsEnvironGet(key) # PyNone THEN OsEnvironGet(key)
    ELSE IF Contains(self.env, key) THEN Item(self.env.body, key)
    ELSE default

---------------------------------------------------------------------------
(* Claims *)

\* C1: get_env returns the process-environment value whenever the variable
\* is set there (to any string), otherwise the persisted env value whenever
\* the key is present there, otherwise the default, otherwise None.
C1_GetEnvPrecedence ==
    (last.op = "get_env" /\ IsTable(_config.env))
        => /\ last.exc = NoExc
           /\ last.ret = Precedence(_config, last.arg.key, last.arg.default)

\* C2: after set_config_value("env.K", v) returns, get_config().get_env(K)
\* returns v when K is unset in the process environment, whatever calls
\* came before and whether or not a Config was cached.
C2_SetThenGetEnv ==
    \A K \in LeafNames :
        (/\ last.op = "set_config_value"
         /\ last.exc = NoExc
         /\ last.arg.key = EnvKey(K)
         /\ OsEnvironGet(K) = PyNone)
            => get_env(GetConfigResult, K, PyNone) = Ret(PyStr(last.arg.value))

Signals == {"SystemExit", "KeyboardInterrupt"}

\* C3: when the chat engine raises SystemExit or KeyboardInterrupt, act
\* does not propagate it: it goes on to the download and returns the
\* snapshot of the workspace that download takes.
C3_InterruptContained ==
    /\ [](\A i \in Runs :
            run[i].chatEnd \in Signals
                => /\ run[i].exc = NoExc
                   /\ run[i].pc \in {"download", "done"}
                   /\ run[i].pc = "done"
                        => run[i].downloaded /\ run[i].ret.kind = "files")
    /\ [][\A i \in Runs :
            (run[i].pc = "download" /\ run'[i].pc # "download")
                => /\ run'[i].pc = "done"
                   /\ run'[i].exc = NoExc
                   /\ run'[i].ret = Files(fs[run[i].name])]_vars

\* C3 witness: a run whose chat engine raised KeyboardInterrupt has
\* returned the workspace's files, the engine's output among them.
C3_Witness ==
    \E i \in Runs :
        /\ run[i].pc = "done"
        /\ run[i].chatEnd = "KeyboardInterrupt"
        /\ run[i].exc = NoExc
        /\ run[i].ret.kind = "files"
        /\ "out.txt" \in DOMAIN run[i].ret.map

\* C4: act called for a name whose workspace directory exists raises
\* FileExistsError and does nothing else: no upload, no chat-engine call,
\* no download, and the workspace is as it was.
C4_ConflictNoFileOps ==
    /\ [](\A i \in Runs :
            run[i].exc = "FileExistsError"
                => /\ run[i].pc = "done"
                   /\ ~run[i].uploaded
                   /\ ~run[i].downloaded
                   /\ run[i].ret = PyNone
                   /\ \A n \in 1..Len(chatLog) : chatLog[n].run # i)
    /\ [][\A i \in Runs :
            (/\ run[i].pc = "idle"
             /\ run'[i].pc # "idle"
             /\ run'[i].name \in DOMAIN fs)
                => /\ run'[i].pc = "done"
                   /\ run'[i].exc = "FileExistsError"
                   /\ fs' = fs
                   /\ chatLog' = chatLog]_vars

\* C4 witness: a call has ended with FileExistsError on the workspace an
\* earlier run left, whose file is still there.
C4_Witness ==
    \E i \in Runs :
        /\ run[i].pc = "done"
        /\ run[i].exc = "FileExistsError"
        /\ run[i].name \in DOMAIN fs
        /\ "old.txt" \in DOMAIN fs[run[i].name]

\* C5: comment_out removes an existing leaf, whatever value it holds, as
\* an active key of the persisted document; on an absent leaf it raises
\* nothing and leaves the document's active keys as they were.
C5_CommentOutRemoves ==
    last.op = "comment_out"
        => LET keypath == Split(last.arg.key)
               start == Loaded(last.before)
           IN IF Lookup(start, keypath) # PyNone
              THEN Lookup(file, keypath) = PyNone
              ELSE /\ last.exc = NoExc
                   /\ \A key \in KeyStrings :
                        Lookup(file, Split(key)) = Lookup(start, Split(key))

\* C6: get_env_required raises the missing-variable error exactly when the
\* key is unset in the process environment and absent from the persisted
\* env; otherwise it returns by get_env's precedence and does not raise.
C6_GetEnvRequired ==
    (last.op = "get_env_required" /\ IsTable(_config.env))
        => LET key == last.arg.key
               missing == OsEnvironGet(key) = PyNone /\ ~Contains(_config.env, key)
           IN IF missing
              THEN last.exc = "KeyError"
              ELSE /\ last.exc = NoExc
                   /\ last.ret = Precedence(_config, key, PyNone)

NoEndpointProviders == {"anthropic", "openrouter", "local"}

EnvItem(doc, name) == Lookup(doc, <<"env", name>>)

\* C7: for anthropic, openrouter and local, with model and endpoint
\* populated or empty, save_to_config writes neither env.API_MODEL nor
\* env.API_ENDPOINT (both are, present or absent, as before the call), and
\* a call that returns has set env.API_KEY to the token and
\* env.API_PROVIDER to the provider id.
C7_SaveSkipsModelEndpoint ==
    (last.op = "save_to_config" /\ last.arg.provider \in NoEndpointProviders)
        => /\ EnvItem(file, "API_MODEL") = EnvItem(Loaded(last.before), "API_MODEL")
           /\ EnvItem(file, "API_ENDPOINT")
                = EnvItem(Loaded(last.before), "API_ENDPOINT")
           /\ (last.done /\ last.exc = NoExc)
                => /\ EnvItem(file, "API_KEY") = PyStr(last.arg.token)
                   /\ EnvItem(file, "API_PROVIDER") = PyStr(last.arg.provider)

\* C7 witness: save_to_config has returned for a provider without an
\* endpoint variable whose model and endpoint fields are populated, on a
\* document that held another API_MODEL, and the token is persisted.
C7_Witness ==
    /\ last.op = "save_to_config"
    /\ last.done
    /\ last.exc = NoExc
    /\ last.arg.provider \in NoEndpointProviders
    /\ last.arg.model = PyStr("m")
    /\ last.arg.endpoint # PyNone
    /\ EnvItem(Loaded(last.before), "API_MODEL") = PyStr("old")
    /\ EnvItem(file, "API_KEY") = PyStr(last.arg.token)

\* C8: set_config_value creates the missing intermediate mappings, so
\* that after it returns the persisted document holds value at keyPath.
C8_SetCreatesIntermediates ==
    (last.op = "set_config_value" /\ last.exc = NoExc)
        => Lookup(file, Split(last.arg.key)) = PyStr(last.arg.value)

\* C9: from a missing file or a document with both prompt and env, every
\* sequence of load, set_config_value and comment_out calls leaves a
\* persisted document with both top-level keys, and load_config never
\* fails with the missing-key error.
C9_BothKeysKept ==
    /\ file # PyNone => Contains(file, "prompt") /\ Contains(file, "env")
    /\ last.op \in {"load_config", "get_config"} => last.exc # "AssertionError"

\* C10: the cached Config is either not built or equal to what load_config
\* gives on the current persisted document, after calls that return and
\* calls that raise; get_config loads only when nothing is cached and
\* otherwise returns the cached instance without touching the file.
C10_CacheCoherent ==
    /\ _config # PyNone
        => /\ load_config(file).exc = NoExc
           /\ _config = load_config(file).config
    /\ (last.op = "get_config" /\ last.cached # PyNone)
        => /\ last.ret = last.cached
           /\ _config = last.cached
           /\ file = last.before

\* A run that has passed the existence check of act
Passed(i) == run[i].pc # "idle" /\ run[i].exc # "FileExistsError"

\* C11: of two invocations with the same model and prompt, whose
\* workspace did not exist beforehand, one fails with FileExistsError: in
\* no interleaving do both pass the existence check and go on to use the
\* same workspace.
C11_OneOfTwoFails ==
    \A i, j \in Runs :
        (/\ i # j
         /\ run[i].pc # "idle"
         /\ run[j].pc # "idle"
         /\ run[i].model = run[j].model
         /\ run[i].prompt = run[j].prompt)
            => ~(Passed(i) /\ Passed(j))

\* C12: an exception of the chat engine other than SystemExit and
\* KeyboardInterrupt leaves act unchanged: the run ends with it, returns
\* no Files and never downloads.
C12_OtherExceptionsPropagate ==
    \A i \in Runs :
        (run[i].chatEnd # NoExc /\ run[i].chatEnd \notin Signals)
            => /\ run[i].pc = "done"
               /\ run[i].exc = run[i].chatEnd
               /\ run[i].ret = PyNone
               /\ ~run[i].downloaded

\* C12 witness: a run has ended with the RuntimeError its chat engine
\* raised, after the engine wrote into the workspace.
C12_Witness ==
    \E i \in Runs :
        /\ run[i].pc = "done"
        /\ run[i].chatEnd = "RuntimeError"
        /\ run[i].exc = "RuntimeError"
        /\ "out.txt" \in DOMAIN fs[run[i].name]

\* C13: load_config fails with AssertionError whenever the persisted
\* document lacks the top-level key prompt or env; with both present it
\* returns the Config of exactly those two values, whatever other
\* top-level keys the document has.
C13_LoadConfigKeys ==
    last.op = "load_config"
        => LET doc == Loaded(last.before)
           IN IF ~Contains(doc, "prompt") \/ ~Contains(doc, "env")
              THEN last.exc = "AssertionError"
              ELSE /\ last.exc = NoExc
                   /\ last.ret = Config(Lookup(doc, <<"prompt">>),
                                        Lookup(doc, <<"env">>))

\* C13 witness: load_config has returned a Config from a document that has
\* a third top-level key.
C13_Witness ==
    /\ last.op = "load_config"
    /\ last.exc = NoExc
    /\ Contains(Loaded(last.before), "misc")
    /\ last.ret.kind = "config"

\* C14: loading with the file missing writes the default document and
\* returns it; loading an existing file returns it and writes nothing.
\* So the default document is written at most once (only the first call
\* can find the file missing), and a set_config_value made while the file
\* is missing leaves a document with the default prompt and env keys plus
\* the newly set value.
C14_DefaultWrittenOnce ==
    /\ last.op = "load_config"
        => IF last.before = PyNone
           THEN /\ file = default_config
                /\ last.ret = Config(Lookup(default_config, <<"prompt">>),
                                     Lookup(default_config, <<"env">>))
           ELSE file = last.before
    /\ nOps > 0 => file # PyNone
    /\ nOps > 1 => last.before # PyNone
    /\ (last.op = "set_config_value" /\ last.before = PyNone /\ last.exc = NoExc)
        => /\ Contains(file, "prompt")
           /\ Contains(file, "env")
           /\ Lookup(file, Split(last.arg.key)) = PyStr(last.arg.value)

\* The chat-engine calls made by run i
ChatCalls(i) == SelectSeq(chatLog, LAMBDA c : c.run = i)

\* C16: every act invocation goes existence check -> seed -> invoke ->
\* collect.  Upload happens only when input files were supplied and only
\* before the chat-engine call; the chat engine is invoked at most once per
\* act call, always with no_confirm = TRUE and interactive = FALSE; download
\* happens only after the chat-engine call has ended, and act returns
\* exactly the value download returned.
C16_PhaseOrder ==
    /\ [](\A i \in Runs :
            /\ run[i].uploaded
                => /\ run[i].files.kind = "files"
                   /\ DOMAIN run[i].files.map # {}
            /\ Len(ChatCalls(i)) <= 1
            /\ \A k \in 1..Len(chatLog) :
                   chatLog[k].no_confirm = TRUE /\ chatLog[k].interactive = FALSE
            /\ run[i].pc \in {"idle", "store", "upload", "chat"}
                => Len(ChatCalls(i)) = 0 /\ ~run[i].downloaded
            /\ run[i].pc = "chatting" => ~run[i].downloaded
            /\ run[i].downloaded
                => /\ run[i].pc = "done"
                   /\ Len(ChatCalls(i)) = 1
                   /\ run[i].chatEnd \in {NoExc} \cup Signals
                   /\ run[i].exc = NoExc
                   /\ run[i].ret.kind = "files"
            /\ run[i].exc = "FileExistsError"
                => Len(ChatCalls(i)) = 0 /\ ~run[i].uploaded /\ ~run[i].downloaded)
    /\ [][\A i \in Runs :
            /\ (run'[i].uploaded /\ ~run[i].uploaded)
                => /\ Len(ChatCalls(i)) = 0
                   /\ run[i].pc = "upload"
                   /\ \A f \in DOMAIN run[i].files.map :
                          f \in DOMAIN fs'[run[i].name]
                          /\ fs'[run[i].name][f] = run[i].files.map[f]
            /\ (run'[i].downloaded /\ ~run[i].downloaded)
                => /\ run[i].pc = "download"
                   /\ run'[i].ret = Files(fs[run[i].name])
            /\ (run[i].pc = "done" /\ run[i].downloaded)
                => run'[i] = run[i]]_vars

C16_Witness ==
    \E i \in Runs :
        /\ run[i].pc = "done" /\ run[i].uploaded /\ run[i].downloaded
        /\ Len(ChatCalls(i)) = 1
        /\ run[i].ret = Files(("out.txt" :> "o") @@ ("in.txt" :> "i"))

EndpointProviders == {"openai", "azure"}

\* The env values a save_to_config call found, and the ones it writes
SaveOld(name) == EnvItem(Loaded(last.before), name)
SaveNew(name) ==
    CASE name = "API_KEY" -> PyStr(last.arg.token)
      [] name = "API_PROVIDER" -> PyStr(last.arg.provider)
      [] name = "API_MODEL" ->
            IF Truthy(last.arg.model) THEN PyStr(last.arg.model.val)
            ELSE SaveOld(name)
      [] name = "API_ENDPOINT" ->
            IF Truthy(last.arg.endpoint) THEN PyStr(last.arg.endpoint.val)
            ELSE SaveOld(name)

SaveOrder == <<"API_KEY", "API_PROVIDER", "API_MODEL", "API_ENDPOINT">>

\* The persisted env after the first n steps of the call
SavedUpTo(n) ==
    \A k \in 1..Len(SaveOrder) :
        EnvItem(file, SaveOrder[k])
            = IF k <= n THEN SaveNew(SaveOrder[k]) ELSE SaveOld(SaveOrder[k])

\* C17: for openai and azure, save_to_config writes API_KEY, API_PROVIDER,
\* API_MODEL (when model is non-empty) and API_ENDPOINT (when endpoint is
\* set) one step at a time in that order; after each completed step the
\* earlier keys hold their new values, the later keys their old ones, and
\* the cached Config is the one the document loads to; a crash between two
\* steps leaves such a partially updated document.
C17_SaveStepwise ==
    (last.op = "save_to_config" /\ last.arg.provider \in EndpointProviders)
        => /\ savePc = "provider" => SavedUpTo(1)
           /\ savePc = "model" => SavedUpTo(2)
           /\ savePc = "endpoint" => SavedUpTo(3)
           /\ (savePc = "idle" /\ last.exc = NoExc) => SavedUpTo(4)
           /\ savePc # "idle"
                => /\ last.exc = NoExc
                   /\ ~last.done
                   /\ _config # PyNone
                   /\ load_config(file).exc = NoExc
                   /\ _config = load_config(file).config
           /\ last.exc = "Crash"
                => /\ \E n \in 1..3 : SavedUpTo(n)
                   /\ _config = PyNone

\* C17 witness: the process died after the API_KEY step; the document
\* holds the new token and still the old model although a model was given.
C17_Witness ==
    /\ last.op = "save_to_config"
    /\ last.arg.provider \in EndpointProviders
    /\ last.exc = "Crash"
    /\ last.arg.model = PyStr("m")
    /\ SaveOld("API_KEY") = PyNone
    /\ EnvItem(file, "API_KEY") = PyStr(last.arg.token)
    /\ EnvItem(file, "API_MODEL") = PyStr("old")

\* The key paths of a document: every key of every table, nested
RECURSIVE PathsOf(_)
PathsOf(v) ==
    IF ~IsTable(v) THEN {}
    ELSE UNION {{<<k>>} \cup {<<k>> \o p : p \in PathsOf(Item(v.body, k))} :
                k \in Keys(v.body)}

\* What a document holds at a key path: nothing, a value, or a table
NodeAt(doc, p) ==
    LET v == Lookup(doc, p)
    IN IF IsTable(v) THEN [kind |-> "table"] ELSE v

IsPrefix(p, q) == Len(p) <= Len(q) /\ SubSeq(q, 1, Len(p)) = p

IsPointMutation == last.op \in {"set_config_value", "comment_out"}

\* C18 as stated: after set_config_value(keyPath, value) or
\* comment_out(keyPath, annotation) every key of the document other than
\* the one at keyPath has the same presence and the same value as in the
\* document the call loaded.
C18_OnlyLeafTouched ==
    IsPointMutation
        => \A p \in PathsOf(Loaded(last.before)) \cup PathsOf(file) :
               p # Split(last.arg.key)
                   => NodeAt(file, p) = NodeAt(Loaded(last.before), p)

\* C18 amended: after set_config_value(keyPath, value) or
\* comment_out(keyPath, annotation) every key of the document that is
\* neither at keyPath nor below it has the same presence and the same
\* value as in the document the call loaded; when keyPath addresses a
\* table, the keys of that table go with it.
C18_OnlyAddressedNodeTouched ==
    IsPointMutation
        => \A p \in PathsOf(Loaded(last.before)) \cup PathsOf(file) :
               ~IsPrefix(Split(last.arg.key), p)
                   => NodeAt(file, p) = NodeAt(Loaded(last.before), p)

\* C18 witness: a call changed the document at its key path, in a table
\* that has other keys, and the document has other tables.
C18_Witness ==
    /\ IsPointMutation
    /\ file # Loaded(last.before)
    /\ Len(Split(last.arg.key)) = 2
    /\ NodeAt(file, Split(last.arg.key)) # NodeAt(Loaded(last.before), Split(last.arg.key))
    /\ \E p \in PathsOf(file) :
           /\ Len(p) = 2
           /\ Front(p) = Front(Split(last.arg.key))
           /\ p # Split(last.arg.key)
    /\ \E p \in PathsOf(file) : Len(p) = 3

\* C19: when comment_out removes an existing leaf, the comment entry that
\* replaces it occupies the position the key had in its table: the table
\* is as before but for that one entry, whether the key was first, in the
\* middle or last.
C19_CommentInPlace ==
    last.op = "comment_out"
        => LET keypath == Split(last.arg.key)
               start == Loaded(last.before)
               value == Lookup(start, keypath)
           IN (value.kind = "str" /\ Lookup(file, keypath) = PyNone)
                => LET b == Walk(start, Front(keypath)).d.body
                       i == CHOOSE i \in 1..Len(b) : b[i].key = Last(keypath)
                   IN Walk(file, Front(keypath)).d.body
                        = [b EXCEPT ![i] = Comment(Last(keypath), value,
                                                   last.arg.note)]

\* The two parts of the name an invocation derives
NameParts(i) ==
    <<Replace(run[i].model), Abs(hashOf[run[i].prompt]) % IdModulus>>

\* C20 as stated: two invocations whose models differ or whose prompts
\* differ derive different run names.
C20_DistinctNames ==
    \A i, j \in Runs :
        (/\ i # j /\ run[i].pc # "idle" /\ run[j].pc # "idle"
         /\ (run[i].model # run[j].model \/ run[i].prompt # run[j].prompt))
            => run[i].name # run[j].name

\* C20 amended: two invocations derive the same run name exactly when
\* their models agree after '/' is replaced by '--' and their prompt
\* hashes agree in absolute value modulo 1000000; an invocation fails with
\* a workspace conflict only on a workspace left by an earlier process or
\* made by an invocation that agrees with it in both parts.
C20_NameByParts ==
    \A i \in Runs :
        /\ \A j \in Runs :
               (i # j /\ run[i].pc # "idle" /\ run[j].pc # "idle")
                   => (run[i].name = run[j].name <=> NameParts(i) = NameParts(j))
        /\ run[i].exc = "FileExistsError"
               => /\ run[i].name \in DOMAIN fs
                  /\ \/ "old.txt" \in DOMAIN fs[run[i].name]
                     \/ \E j \in Runs \ {i} :
                            /\ Passed(j)
                            /\ run[j].pc # "store"
                            /\ NameParts(j) = NameParts(i)

\* C20 witness: an invocation failed with a workspace conflict on the
\* workspace of an invocation with another model and another prompt.
C20_Witness ==
    \E i, j \in Runs :
        /\ run[i].exc = "FileExistsError"
        /\ Passed(j)
        /\ run[i].model # run[j].model
        /\ run[i].prompt # run[j].prompt
        /\ run[i].name = run[j].name
        /\ "old.txt" \notin DOMAIN fs[run[i].name]

\* The outcome of the last get_workspace_prompt call is the one that the
\* project configuration at path p gives, and no other candidate was opened
UsesCandidate(p) ==
    LET project == ProjectConfig(projFs[p])
    IN /\ promptCall.opened # <<>>
       /\ promptCall.opened[1] = p
       /\ \A k \in 2..Len(promptCall.opened) :
              promptCall.opened[k] \notin CandidatePaths
       /\ IF project.exc # NoExc
          THEN promptCall.exc = project.exc
          ELSE /\ promptCall.exc = NoExc
               /\ promptCall.ret.kind = "prompt"
               /\ \E listing \in Listings :
                      LET files == Expand(project.ret.files, listing)
                      IN promptCall.ret.blocks
                            = [k \in 1..Len(files) |->
                                  [name |-> Last(files[k]),
                                   text |-> DataText[files[k]].val]]

\* C15: get_workspace_prompt(workspace) uses <workspace>/gptme.toml when
\* that exists, <workspace>/.github/gptme.toml only when gptme.toml does
\* not exist, and returns the empty string, opening no file, when neither
\* exists.
C15_CandidateOrder ==
    promptCall.op = "get_workspace_prompt"
        => LET first == promptCall.workspace \o <<"gptme.toml">>
               second == promptCall.workspace \o <<".github", "gptme.toml">>
           IN IF first \in DOMAIN projFs THEN UsesCandidate(first)
              ELSE IF second \in DOMAIN projFs THEN UsesCandidate(second)
              ELSE /\ promptCall.exc = NoExc
                   /\ promptCall.ret = PyStr("")
                   /\ promptCall.opened = <<>>

\* C15 witness: both candidates exist, .github/gptme.toml holds a key that
\* ProjectConfig rejects, and the call returned the files that gptme.toml
\* selects.
C15_Witness ==
    /\ promptCall.op = "get_workspace_prompt"
    /\ promptCall.workspace = <<"ws">>
    /\ <<"ws", "gptme.toml">> \in DOMAIN projFs
    /\ <<"ws", ".github", "gptme.toml">> \in DOMAIN projFs
    /\ ProjectConfig(projFs[<<"ws", ".github", "gptme.toml">>]).exc = "TypeError"
    /\ promptCall.exc = NoExc
    /\ promptCall.ret.kind = "prompt"
    /\ Len(promptCall.ret.blocks) = 2

====
